---- MODULE Spec2Model ----
(***************************************************************************)
(* Continuous double auction matching engine of the Arc coordination       *)
(* system: services/auction_engine.py (AuctionEngine, OrderBookEntry) and  *)
(* the intent store written by services/indexer.py.                        *)
(*                                                                         *)
(* The specifications share the variables:                                 *)
(*   SpecBook  the order book driven through its interface, any sequence   *)
(*             of add_intent and try_match calls;                          *)
(*   SpecDeep  the same interface on one asset, with deeper books;         *)
(*   Spec      run_matching_loop against the store, with the indexer and   *)
(*             the settlement boundary acting concurrently;                *)
(*   SpecData  run_matching_loop against a store that also holds records   *)
(*             the loader cannot use or cannot read, and that may be       *)
(*             unreachable when the loop queries it;                       *)
(*   SpecStop  SpecData with the operator interrupting the loop;           *)
(*   SpecSnap  get_order_book_snapshot on books of up to MaxSnapLen        *)
(*             entries a side;                                             *)
(*   SpecPass  two match_continuously coroutines on the book of one asset, *)
(*             switching where the submission is awaited.                  *)
(***************************************************************************)
EXTENDS Integers, Sequences, FiniteSets, TLC

VARIABLES
    store,       \* IntentDB rows, intent_id -> row          (indexer.py:21-34)
    bid_books,   \* asset -> heap (sequence) of bid entries  (auction_engine.py:65)
    ask_books,   \* asset -> heap (sequence) of ask entries  (auction_engine.py:66)
    pc,          \* position of run_matching_loop
    todo,        \* assets of all_assets the for loop has not visited yet
    cur,         \* asset match_continuously is running for, or NoAsset
    inflight,    \* arguments of the create_match_onchain call in progress
    matches,     \* every create_match_onchain call made, with its outcome
    last,        \* what the last try_match call saw and returned
    loaded,      \* intent ids the last load_intents_from_indexer read
    cycle,       \* number of loop iterations started
    nadds,       \* number of add_intent calls made through the interface
    mc,          \* the match_continuously call in progress or just returned
    ret,         \* what the last create_match_onchain call met and returned
    passes       \* match_continuously coroutines run side by side on one book

vars == <<store, bid_books, ask_books, pc, todo, cur, inflight, matches, last,
          loaded, cycle, nadds, mc, ret, passes>>

----------------------------------------------------------------------------
(* Bounds of the model *)

MaxAdds == 3
MaxDeepAdds == 5
MaxIntents == 3
MaxCycles == 2
MaxDataIntents == 3
MaxSnapLen == 11
MaxPassAdds == 4

(* IntentType enum values *)
BID == "bid"
ASK == "ask"

NoAsset == "none"
None == [none |-> TRUE]

\* no match_continuously call made yet in this pass of the loop
NoCall == [bids |-> <<>>, asks |-> <<>>, tries |-> 0, found |-> 0, done |-> 0]

Assets == {"USDC", "EURC"}

\* the coroutines of SpecPass, none of them started
Workers == {1, 2}
NoPasses == [w \in Workers |-> [pc |-> "idle", inflight |-> None, returned |-> <<>>]]

----------------------------------------------------------------------------
(* OrderBookEntry and the heap operations applied to it *)

\* OrderBookEntry.__lt__ with the bid branch lost: every entry ordered as an ask
OrderBookEntry_lt_AskOnly(self, other) == self.price < other.price

\* OrderBookEntry.__lt__: bids order by higher price, asks by lower price;
\* nothing but the price is compared.
OrderBookEntry_lt(self, other) ==
    IF self.intent_type = BID
    THEN self.price > other.price
    ELSE self.price < other.price

\* A JSON string found where a price is expected, e.g. "price": "abc".  The
\* model's prices are integers; this one value stands for the string.
StrPrice == 0 - 1000000

\* whether Python can order the two prices: int with int, str with str
Comparable(self, other) == (self.price = StrPrice) = (other.price = StrPrice)

\* heapq._siftdown with 1-based positions, heap[pos] = newitem: swap newitem
\* with its parent while it is less than it.  A comparison of a str with an
\* int raises TypeError and leaves the heap as the swaps so far made it.
RECURSIVE siftdown(_, _, _, _)
siftdown(heap, startpos, pos, newitem) ==
    IF pos > startpos
    THEN LET parent == heap[pos \div 2]
         IN  IF ~Comparable(newitem, parent)
             THEN [heap |-> heap, raised |-> TRUE]
             ELSE IF OrderBookEntry_lt(newitem, parent)
             THEN siftdown([heap EXCEPT ![pos] = parent, ![pos \div 2] = newitem],
                           startpos, pos \div 2, newitem)
             ELSE [heap |-> heap, raised |-> FALSE]
    ELSE [heap |-> heap, raised |-> FALSE]

\* heapq._siftup, heap[pos] = newitem: swap the smaller child up until a leaf
\* is reached, then sift newitem down from there.
RECURSIVE siftup(_, _, _, _)
siftup(heap, startpos, pos, newitem) ==
    LET childpos == 2 * pos
        rightpos == childpos + 1
    IN  IF childpos <= Len(heap)
        THEN IF rightpos <= Len(heap) /\ ~Comparable(heap[childpos], heap[rightpos])
             THEN [heap |-> heap, raised |-> TRUE]
             ELSE LET c == IF rightpos <= Len(heap)
                              /\ ~OrderBookEntry_lt(heap[childpos], heap[rightpos])
                           THEN rightpos
                           ELSE childpos
                  IN  siftup([heap EXCEPT ![pos] = heap[c], ![c] = newitem],
                             startpos, c, newitem)
        ELSE siftdown(heap, startpos, pos, newitem)

\* heapq.heappush(heap, item): the item is appended, then sifted.  The heap
\* the call leaves, and whether it raised.
heappush(heap, item) == siftdown(Append(heap, item), 1, Len(heap) + 1, item)

\* a pop that only looks: the root is returned but stays in the heap
heappop_Peek(heap) == [heap |-> heap, raised |-> FALSE]

\* heapq.heappop(heap): the last element replaces the root and is sifted.
\* The heap the call leaves, and whether it raised.
heappop(heap) ==
    LET lastelt == heap[Len(heap)]
        rest == SubSeq(heap, 1, Len(heap) - 1)
    IN  IF rest # <<>>
        THEN siftup([rest EXCEPT ![1] = lastelt], 1, 1, lastelt)
        ELSE [heap |-> rest, raised |-> FALSE]

\* dict.get(key, default)
Get(d, key, default) == IF key \in DOMAIN d THEN d[key] ELSE default

\* a dict with key set to value
Put(d, key, value) == [k \in DOMAIN d \cup {key} |-> IF k = key THEN value ELSE d[k]]

----------------------------------------------------------------------------
(* AuctionEngine.add_intent and AuctionEngine.try_match as functions of the books *)

\* add_intent: the books after the call, keyed by entry.settlement_asset,
\* and whether heappush raised
add_intent(bids, asks, entry) ==
    LET asset == entry.settlement_asset
        r == heappush(Get(IF entry.intent_type = BID THEN bids ELSE asks,
                          asset, <<>>), entry)
    IN  [bids |-> IF entry.intent_type = BID THEN Put(bids, asset, r.heap) ELSE bids,
         asks |-> IF entry.intent_type = BID THEN asks ELSE Put(asks, asset, r.heap),
         raised |-> r.raised]

\* the crossing test with > written for >=
CrossesStrict(best_bid, best_ask) == best_bid.price > best_ask.price

\* the settlement price rounded up instead of down
MatchPriceCeil(best_bid, best_ask) == (best_bid.price + best_ask.price + 1) \div 2

\* a crossing test that lets every pair through
CrossesAlways(best_bid, best_ask) == TRUE

\* the crossing test of try_match
Crosses(best_bid, best_ask) == best_bid.price >= best_ask.price

\* the settlement price with the halving lost
MatchPriceSum(best_bid, best_ask) == best_bid.price + best_ask.price

\* the settlement price of try_match: Python's floor division
MatchPrice(best_bid, best_ask) == (best_bid.price + best_ask.price) \div 2

\* try_match raises TypeError before it pops anything when one of the two
\* best prices is a str: str >= int at the crossing test, (str + str) // 2 at
\* the settlement price.
BestRaises(best_bid, best_ask) ==
    best_bid.price = StrPrice \/ best_ask.price = StrPrice

\* try_match(asset): the returned tuple (or None), the books after the call
\* and whether the call raised.  The bid heap is popped first: when that pop
\* raises the ask heap is left alone.
try_match(bids, asks, asset) ==
    IF asset \notin DOMAIN bids \/ asset \notin DOMAIN asks
    THEN [result |-> None, bids |-> bids, asks |-> asks, raised |-> FALSE]
    ELSE IF bids[asset] = <<>> \/ asks[asset] = <<>>
    THEN [result |-> None, bids |-> bids, asks |-> asks, raised |-> FALSE]
    ELSE LET best_bid == bids[asset][1]
             best_ask == asks[asset][1]
         IN  IF BestRaises(best_bid, best_ask)
             THEN [result |-> None, bids |-> bids, asks |-> asks, raised |-> TRUE]
             ELSE IF ~Crosses(best_bid, best_ask)
             THEN [result |-> None, bids |-> bids, asks |-> asks, raised |-> FALSE]
             ELSE LET popped_bids == heappop(bids[asset])
                      popped_asks == heappop(asks[asset])
                  IN  IF popped_bids.raised
                      THEN [result |-> None,
                            bids |-> [bids EXCEPT ![asset] = popped_bids.heap],
                            asks |-> asks, raised |-> TRUE]
                      ELSE IF popped_asks.raised
                      THEN [result |-> None,
                            bids |-> [bids EXCEPT ![asset] = popped_bids.heap],
                            asks |-> [asks EXCEPT ![asset] = popped_asks.heap],
                            raised |-> TRUE]
                      ELSE [result |-> [bid |-> best_bid, ask |-> best_ask,
                                        match_price |-> MatchPrice(best_bid, best_ask)],
                            bids |-> [bids EXCEPT ![asset] = popped_bids.heap],
                            asks |-> [asks EXCEPT ![asset] = popped_asks.heap],
                            raised |-> FALSE]

\* what `last` records of one try_match call
TryRecord(bids, asks, asset) ==
    [asset |-> asset, bids |-> bids, asks |-> asks,
     result |-> try_match(bids, asks, asset).result]

NoTry == [asset |-> NoAsset, bids |-> <<>>, asks |-> <<>>, result |-> None]

----------------------------------------------------------------------------
(* SpecBook: the order book driven through add_intent and try_match *)

BookPrices == {10000, 10001, 10100}
BookTimes == {1, 2}
BookQuantities == {1, 2}
BookAssets == Assets \cup {"DAI"}

BookIntentId(n) == n + 1

InitBook ==
    /\ store = <<>>
    /\ bid_books = <<>>
    /\ ask_books = <<>>
    /\ pc = "interface"
    /\ todo = {}
    /\ cur = NoAsset
    /\ inflight = None
    /\ matches = <<>>
    /\ last = NoTry
    /\ loaded = [ids |-> {}, inactive |-> {}]
    /\ cycle = 0
    /\ nadds = 0
    /\ mc = NoCall
    /\ ret = None
    /\ passes = NoPasses

AddIntent ==
    /\ pc = "interface"
    /\ nadds < MaxAdds
    /\ \E price \in BookPrices, timestamp \in BookTimes, quantity \in BookQuantities,
          intent_type \in {BID, ASK}, asset \in Assets :
          LET entry == [intent_id |-> BookIntentId(nadds), price |-> price,
                        quantity |-> quantity, intent_type |-> intent_type,
                        timestamp |-> timestamp, settlement_asset |-> asset]
          IN  /\ bid_books' = add_intent(bid_books, ask_books, entry).bids
              /\ ask_books' = add_intent(bid_books, ask_books, entry).asks
    /\ nadds' = nadds + 1
    /\ last' = NoTry
    /\ UNCHANGED <<passes, store, pc, todo, cur, inflight, matches, loaded, cycle, mc, ret>>

TryMatch ==
    /\ pc = "interface"
    /\ \E asset \in BookAssets :
          /\ last' = TryRecord(bid_books, ask_books, asset)
          /\ bid_books' = try_match(bid_books, ask_books, asset).bids
          /\ ask_books' = try_match(bid_books, ask_books, asset).asks
    /\ UNCHANGED <<passes, store, pc, todo, cur, inflight, matches, loaded, cycle, nadds, mc, ret>>

NextBook == AddIntent \/ TryMatch

SpecBook == InitBook /\ [][NextBook]_vars

(* SpecDeep: longer call sequences on the book of one asset *)

AddIntentDeep ==
    /\ pc = "interface"
    /\ nadds < MaxDeepAdds
    /\ \E price \in BookPrices, intent_type \in {BID, ASK} :
          LET entry == [intent_id |-> BookIntentId(nadds), price |-> price,
                        quantity |-> 1, intent_type |-> intent_type,
                        timestamp |-> nadds + 1, settlement_asset |-> "USDC"]
          IN  /\ bid_books' = add_intent(bid_books, ask_books, entry).bids
              /\ ask_books' = add_intent(bid_books, ask_books, entry).asks
    /\ nadds' = nadds + 1
    /\ last' = NoTry
    /\ UNCHANGED <<passes, store, pc, todo, cur, inflight, matches, loaded, cycle, mc, ret>>

NextDeep == AddIntentDeep \/ TryMatch

SpecDeep == InitBook /\ [][NextDeep]_vars

----------------------------------------------------------------------------
(* SpecSnap: get_order_book_snapshot applied to books of some depth *)

\* sorted(entries, key=lambda x: x.price, reverse=reverse): Python's sort is
\* stable, also when reversed
RECURSIVE sorted_by_price(_, _)
sorted_by_price(entries, reverse) ==
    IF entries = <<>> THEN <<>>
    ELSE LET first == CHOOSE i \in DOMAIN entries :
                          /\ \A j \in DOMAIN entries :
                                 IF reverse
                                 THEN entries[i].price >= entries[j].price
                                 ELSE entries[i].price <= entries[j].price
                          /\ \A j \in 1..(i - 1) : entries[j].price # entries[i].price
         IN  <<entries[first]>>
             \o sorted_by_price([k \in 1..(Len(entries) - 1) |->
                                    IF k < first THEN entries[k] ELSE entries[k + 1]],
                                reverse)

\* the slice [:10] that forgets to cut
TopAll(entries) == entries

\* the slice [:10]
Top(entries) == SubSeq(entries, 1, IF Len(entries) < 10 THEN Len(entries) ELSE 10)

\* the dict a snapshot lists for one entry
Listed(entries) ==
    [i \in DOMAIN entries |-> [intent_id |-> entries[i].intent_id,
                               price |-> entries[i].price,
                               quantity |-> entries[i].quantity]]

\* get_order_book_snapshot(asset).  The spread, an int or None in the code,
\* is None or a record holding the int.
get_order_book_snapshot(asset) ==
    LET bids == Top(sorted_by_price(Get(bid_books, asset, <<>>), TRUE))
        asks == Top(sorted_by_price(Get(ask_books, asset, <<>>), FALSE))
    IN  [asset |-> asset,
         bids |-> Listed(bids),
         asks |-> Listed(asks),
         spread |-> IF bids # <<>> /\ asks # <<>>
                    THEN [int |-> asks[1].price - bids[1].price]
                    ELSE None]

\* the orders of a book under test: the n-th order of a side has a price
\* that walks through five levels in steps of p
SnapPatterns == {1, 2, 3}

SnapEntry(intent_type, n, p) ==
    [intent_id |-> IF intent_type = BID THEN n ELSE 100 + n,
     price |-> 10000 + ((n * p) % 5) * 10,
     quantity |-> 1 + (n % 2),
     intent_type |-> intent_type,
     timestamp |-> n,
     settlement_asset |-> "USDC"]

\* the heap add_intent builds from the first n orders of a side
RECURSIVE SnapHeap(_, _, _)
SnapHeap(intent_type, n, p) ==
    IF n = 0 THEN <<>>
    ELSE heappush(SnapHeap(intent_type, n - 1, p), SnapEntry(intent_type, n, p)).heap

InitSnap ==
    /\ store = <<>>
    /\ \E nb \in 0..MaxSnapLen, pb \in SnapPatterns :
          bid_books = IF nb = 0 THEN <<>> ELSE [a \in {"USDC"} |-> SnapHeap(BID, nb, pb)]
    /\ \E na \in 0..MaxSnapLen, pa \in SnapPatterns :
          ask_books = IF na = 0 THEN <<>> ELSE [a \in {"USDC"} |-> SnapHeap(ASK, na, pa)]
    /\ pc = "interface"
    /\ todo = {}
    /\ cur = NoAsset
    /\ inflight = None
    /\ matches = <<>>
    /\ last = NoTry
    /\ loaded = [ids |-> {}, inactive |-> {}]
    /\ cycle = 0
    /\ nadds = 0
    /\ mc = NoCall
    /\ ret = None
    /\ passes = NoPasses

\* GET /orderbook/{asset} (api.py): the snapshot is computed and returned
GetOrderBook ==
    /\ pc = "interface"
    /\ \E asset \in BookAssets : ret' = get_order_book_snapshot(asset)
    /\ UNCHANGED <<passes, store, bid_books, ask_books, pc, todo, cur, inflight, matches,
                   last, loaded, cycle, nadds, mc>>

NextSnap == GetOrderBook

SpecSnap == InitSnap /\ [][NextSnap]_vars

----------------------------------------------------------------------------
(* Properties of the order book *)

\* the entries and the prices held by one container
Entries(heap) == { heap[i] : i \in DOMAIN heap }
PricesOf(heap) == { heap[i].price : i \in DOMAIN heap }

\* the containers of last.asset as the last try_match call found them
LastBids == Get(last.bids, last.asset, <<>>)
LastAsks == Get(last.asks, last.asset, <<>>)
LastTried == last.asset # NoAsset
LastMatched == LastTried /\ last.result # None

\* C2: try_match(asset) returns a match if and only if both containers of the
\* asset are non-empty and the highest bid price is at least the lowest ask
\* price; equal prices are a crossing.
C2_CrossingIff ==
    LastTried =>
        ( last.result # None
          <=> /\ LastBids # <<>>
              /\ LastAsks # <<>>
              /\ \E b \in PricesOf(LastBids), a \in PricesOf(LastAsks) :
                    /\ \A p \in PricesOf(LastBids) : b >= p
                    /\ \A q \in PricesOf(LastAsks) : a <= q
                    /\ b >= a )

\* C2 witness: a match at equal prices (spread 0)
C2_Witness ==
    /\ LastMatched
    /\ last.result.bid.price = last.result.ask.price

\* C2, second case: a try_match that found both sides filled and did not match
C2_NoMatchReached ==
    /\ LastTried
    /\ last.result = None
    /\ LastBids # <<>>
    /\ LastAsks # <<>>

\* C3: the bid a successful try_match consumes has the highest price of the
\* asset's bid container, the ask it consumes the lowest price of the ask
\* container, after any sequence of add_intent and try_match calls.
C3_BestPriceConsumed ==
    LastMatched =>
        /\ last.result.bid \in Entries(LastBids)
        /\ last.result.ask \in Entries(LastAsks)
        /\ \A p \in PricesOf(LastBids) : last.result.bid.price >= p
        /\ \A p \in PricesOf(LastAsks) : last.result.ask.price <= p

\* C3 witness: a lower bid that does not cross is in the container, and the
\* higher bid is the one matched; the container has already been popped once
C3_Witness ==
    /\ LastMatched
    /\ Len(LastBids) >= 2
    /\ Len(LastBids) + Len(LastAsks) < nadds
    /\ last.result.bid.price = 10100
    /\ last.result.ask.price = 10001
    /\ 10000 \in PricesOf(LastBids)

\* C4: among the entries of one container with equal price, the one with the
\* earliest timestamp is matched first.
C4_TimePriority ==
    LastMatched =>
        /\ \A e \in Entries(LastBids) :
              e.price = last.result.bid.price => last.result.bid.timestamp <= e.timestamp
        /\ \A e \in Entries(LastAsks) :
              e.price = last.result.ask.price => last.result.ask.timestamp <= e.timestamp

\* C5: settlement_price is the floor of the midpoint of the two prices;
\* bid 10100 with ask 10000 gives 10050.
C5_FloorMidpoint ==
    LastMatched =>
        LET sum == last.result.bid.price + last.result.ask.price
        IN  /\ 2 * last.result.match_price <= sum
            /\ sum < 2 * last.result.match_price + 2
            /\ (last.result.bid.price = 10100 /\ last.result.ask.price = 10000
                => last.result.match_price = 10050)

\* C5 witness: bid 10100 matched with ask 10000
C5_Witness ==
    /\ LastMatched
    /\ last.result.bid.price = 10100
    /\ last.result.ask.price = 10000
    /\ last.result.match_price = 10050

\* C5, rounding case: an odd sum of prices was matched
C5_OddSumReached ==
    /\ LastMatched
    /\ (last.result.bid.price + last.result.ask.price) % 2 = 1

----------------------------------------------------------------------------
(* The intent store: IntentDB rows as the indexer and the API write them *)

\* The "constraints" objects found in stored payloads. Keys may be missing:
\* load_intents_from_indexer reads them with dict.get and a default.
Constraints ==
    { [type |-> "bid", price |-> 10100, quantity |-> 1],
      [type |-> "BID", price |-> 10000],
      [type |-> "ask", price |-> 10000, quantity |-> 2],
      [type |-> "ask", price |-> 10100, quantity |-> 1],
      [type |-> "ask", price |-> -100, quantity |-> 1] }

\* json.loads(payload): {} as _index_intent_registered stores it, or an
\* object with a "constraints" member.
Payloads == {<<>>} \cup { [constraints |-> c] : c \in Constraints }

\* str.lower() on the type strings that occur
Lower(str) ==
    CASE str = "BID" -> "bid"
      [] str = "ASK" -> "ask"
      [] OTHER -> str

\* ids in store order (the primary key order query.all() returns)
RECURSIVE SortedIds(_)
SortedIds(ids) ==
    IF ids = {} THEN <<>>
    ELSE LET least == CHOOSE i \in ids : \A j \in ids : i <= j
         IN  <<least>> \o SortedIds(ids \ {least})

\* ArcIndexer.query_intents(is_active=True, is_matched=False)
query_intents(db) ==
    SortedIds({ i \in DOMAIN db : db[i].is_active /\ ~db[i].is_matched })

\* the fields load_intents_from_indexer parses out of one row
RowConstraints(row) == Get(row.payload, "constraints", <<>>)
RowTypeStr(row) == Get(RowConstraints(row), "type", "bid")
RowPrice(row) == Get(RowConstraints(row), "price", 0)
RowQuantity(row) == Get(RowConstraints(row), "quantity", 1)

\* the row filter of load_intents_from_indexer: `if price == 0: continue`
Skipped(row) == RowPrice(row) = 0

\* the OrderBookEntry load_intents_from_indexer builds from a row
RowEntry(id, row) ==
    [intent_id |-> id,
     price |-> RowPrice(row),
     quantity |-> RowQuantity(row),
     intent_type |-> IF Lower(RowTypeStr(row)) = "bid" THEN BID ELSE ASK,
     timestamp |-> row.timestamp,
     settlement_asset |-> row.settlement_asset]

\* A payload text json.loads cannot parse
NotJson == [not_json |-> TRUE]

\* json.loads(intent_db.payload) raises JSONDecodeError
json_loads_raises(payload) == payload = NotJson

\* the for loop of load_intents_from_indexer over the rows still to visit:
\* every row that is not skipped is added to the books the engine holds.
\* Nothing in the loop catches an exception: json.loads or add_intent raising
\* ends the load with the rows before it added and the rows after it unread.
RECURSIVE load_intents(_, _, _)
load_intents(db, ids, books) ==
    IF ids = <<>>
    THEN [bids |-> books.bids, asks |-> books.asks, raised |-> FALSE]
    ELSE LET row == db[Head(ids)]
             entry == RowEntry(Head(ids), row)
             added == add_intent(books.bids, books.asks, entry)
         IN  IF json_loads_raises(row.payload)
             THEN [bids |-> books.bids, asks |-> books.asks, raised |-> TRUE]
             ELSE IF Skipped(row)
             THEN load_intents(db, Tail(ids), books)
             ELSE IF added.raised
             THEN added
             ELSE load_intents(db, Tail(ids), [bids |-> added.bids, asks |-> added.asks])

----------------------------------------------------------------------------
(* Spec: run_matching_loop, the indexer and the settlement boundary *)

CONFIRMED == "CONFIRMED"
FAILED == "FAILED"

NoLoad == [ids |-> {}, inactive |-> {}]

Init ==
    /\ store = <<>>
    /\ bid_books = <<>>
    /\ ask_books = <<>>
    /\ pc = "load"
    /\ todo = {}
    /\ cur = NoAsset
    /\ inflight = None
    /\ matches = <<>>
    /\ last = NoTry
    /\ loaded = NoLoad
    /\ cycle = 0
    /\ nadds = 0
    /\ mc = NoCall
    /\ ret = None
    /\ passes = NoPasses

\* The engine reads the store in load_intents_from_indexer and nowhere else,
\* so a store update between two of its steps cannot be told from the same
\* update made the next time the loop is suspended: asleep before a load, or
\* waiting for the settlement boundary inside create_match_onchain.
Suspended == pc \in {"load", "submit"}

\* a new row: submit_intent (api.py) or _index_intent_registered
IndexIntentRegistered ==
    /\ Suspended
    /\ Cardinality(DOMAIN store) < MaxIntents
    /\ \E payload \in Payloads, asset \in Assets :
          LET id == Cardinality(DOMAIN store) + 1
          IN  store' = Put(store, id,
                           [timestamp |-> id, settlement_asset |-> asset,
                            is_active |-> TRUE, is_matched |-> FALSE,
                            payload |-> payload])
    /\ UNCHANGED <<passes, bid_books, ask_books, pc, todo, cur, inflight, matches, last,
                   loaded, cycle, nadds, mc, ret>>

\* _index_intent_cancelled: an IntentCancelled event reaches the store
IndexIntentCancelled ==
    /\ Suspended
    /\ \E id \in DOMAIN store :
          /\ store[id].is_active
          /\ store' = [store EXCEPT ![id].is_active = FALSE]
    /\ UNCHANGED <<passes, bid_books, ask_books, pc, todo, cur, inflight, matches, last,
                   loaded, cycle, nadds, mc, ret>>

\* the intents a confirmed createMatch has consumed: the settlement boundary
\* marks both as matched and the registry emits IntentMatched for them
ConfirmedIds ==
    { matches[k].bid_intent_id : k \in { n \in DOMAIN matches : matches[n].status = CONFIRMED } }
    \cup
    { matches[k].ask_intent_id : k \in { n \in DOMAIN matches : matches[n].status = CONFIRMED } }

\* _index_intent_matched: the IntentMatched event that follows a confirmed
\* createMatch reaches the store
IndexIntentMatched ==
    /\ Suspended
    /\ \E id \in DOMAIN store \cap ConfirmedIds :
          /\ ~store[id].is_matched
          /\ store' = [store EXCEPT ![id].is_matched = TRUE]
    /\ UNCHANGED <<passes, bid_books, ask_books, pc, todo, cur, inflight, matches, last,
                   loaded, cycle, nadds, mc, ret>>

\* run_matching_loop: await self.load_intents_from_indexer().  An exception
\* leaves the books as the load had made them and is caught by the loop.
LoadIntents ==
    /\ pc = "load"
    /\ cycle < MaxCycles
    /\ LET r == load_intents(store, query_intents(store),
                             [bids |-> bid_books, asks |-> ask_books])
       IN  /\ bid_books' = r.bids
           /\ ask_books' = r.asks
           /\ pc' = IF r.raised THEN "except" ELSE "assets"
    /\ loaded' = [ids |-> { i \in DOMAIN store : store[i].is_active /\ ~store[i].is_matched },
                  inactive |-> { i \in DOMAIN store : ~store[i].is_active }]
    /\ cycle' = cycle + 1
    /\ last' = NoTry
    /\ UNCHANGED <<passes, store, todo, cur, inflight, matches, nadds, mc, ret>>

\* run_matching_loop: all_assets = set(bid_books.keys()) | set(ask_books.keys())
AllAssets ==
    /\ pc = "assets"
    /\ todo' = DOMAIN bid_books \cup DOMAIN ask_books
    /\ pc' = "match"
    /\ UNCHANGED <<passes, store, bid_books, ask_books, cur, inflight, matches, last,
                   loaded, cycle, nadds, mc, ret>>

\* run_matching_loop: the for loop takes the next asset and calls match_continuously
ForAsset ==
    /\ pc = "match"
    /\ cur = NoAsset
    /\ \E asset \in todo :
          /\ cur' = asset
          /\ todo' = todo \ {asset}
          /\ mc' = [bids |-> Get(bid_books, asset, <<>>),
                    asks |-> Get(ask_books, asset, <<>>),
                    tries |-> 0, found |-> 0, done |-> 0]
    /\ UNCHANGED <<passes, store, bid_books, ask_books, pc, inflight, matches, last,
                   loaded, cycle, nadds, ret>>

\* match_continuously: one pass of the while loop, up to the await or the
\* break.  An exception of try_match leaves the function and the for loop.
MatchContinuously ==
    /\ pc = "match"
    /\ cur # NoAsset
    /\ LET r == try_match(bid_books, ask_books, cur)
       IN  /\ last' = TryRecord(bid_books, ask_books, cur)
           /\ bid_books' = r.bids
           /\ ask_books' = r.asks
           /\ mc' = [mc EXCEPT !.tries = @ + 1,
                               !.found = IF r.result # None THEN @ + 1 ELSE @]
           /\ IF r.raised
              THEN /\ inflight' = None
                   /\ pc' = "except"
                   /\ cur' = cur
              ELSE IF r.result # None
              THEN /\ inflight' = [bid_intent_id |-> r.result.bid.intent_id,
                                   ask_intent_id |-> r.result.ask.intent_id,
                                   match_price |-> r.result.match_price]
                   /\ pc' = "submit"
                   /\ cur' = cur
              ELSE /\ inflight' = None
                   /\ pc' = "match"
                   /\ cur' = NoAsset
    /\ ret' = None
    /\ UNCHANGED <<passes, store, todo, matches, loaded, cycle, nadds>>

\* what create_match_onchain meets at the settlement boundary
BUILD_ERROR == "build_error"
SEND_ERROR == "send_error"
TIMEOUT == "timeout"
RECEIPT_STATUS_0 == "receipt_status_0"
RECEIPT_STATUS_1 == "receipt_status_1"

FailureEvents == {BUILD_ERROR, SEND_ERROR, TIMEOUT, RECEIPT_STATUS_0}

\* tx_hash.hex()
TxHash == [tx_hash |-> TRUE]

\* create_match_onchain that takes any receipt for a success
create_match_onchain_AnyReceipt(event) ==
    IF event \in {RECEIPT_STATUS_1, RECEIPT_STATUS_0} THEN TxHash ELSE None

\* the value create_match_onchain returns: the transaction hash when the
\* receipt has status 1, None for any other receipt and for every exception
create_match_onchain(event) ==
    IF event = RECEIPT_STATUS_1 THEN TxHash ELSE None

\* create_match_onchain without its try/except: the error of the boundary
\* leaves match_continuously and the for loop, and no outcome is reported
CreateMatchRaises(event) ==
    /\ pc = "submit"
    /\ event # RECEIPT_STATUS_1
    /\ inflight' = None
    /\ pc' = "except"
    /\ last' = NoTry
    /\ ret' = [event |-> event, value |-> None]
    /\ UNCHANGED <<passes, store, bid_books, ask_books, todo, cur, matches, loaded,
                   cycle, nadds, mc>>

\* a submission that marks both intents matched in the store as soon as it
\* is made, whatever its outcome
CreateMatchMarks(event) ==
    /\ pc = "submit"
    /\ matches' = Append(matches,
                         [args |-> inflight,
                          status |-> IF create_match_onchain(event) # None
                                     THEN CONFIRMED ELSE FAILED,
                          bid_intent_id |-> inflight.bid_intent_id,
                          ask_intent_id |-> inflight.ask_intent_id,
                          cycle |-> cycle])
    /\ store' = [id \in DOMAIN store |->
                    IF id \in {inflight.bid_intent_id, inflight.ask_intent_id}
                    THEN [store[id] EXCEPT !.is_matched = TRUE]
                    ELSE store[id]]
    /\ ret' = [event |-> event, value |-> create_match_onchain(event)]
    /\ mc' = [mc EXCEPT !.done = @ + 1]
    /\ inflight' = None
    /\ pc' = "match"
    /\ last' = NoTry
    /\ UNCHANGED <<passes, bid_books, ask_books, todo, cur, loaded, cycle, nadds>>

\* the await of match_continuously returns; the loop goes on to its next pass
CreateMatch(event) ==
    /\ pc = "submit"
    /\ LET value == create_match_onchain(event)
       IN  /\ matches' = Append(matches,
                                [args |-> inflight,
                                 status |-> IF value # None THEN CONFIRMED ELSE FAILED,
                                 bid_intent_id |-> inflight.bid_intent_id,
                                 ask_intent_id |-> inflight.ask_intent_id,
                                 cycle |-> cycle])
           /\ ret' = [event |-> event, value |-> value]
    /\ mc' = [mc EXCEPT !.done = @ + 1]
    /\ inflight' = None
    /\ pc' = "match"
    /\ last' = NoTry
    /\ UNCHANGED <<passes, store, bid_books, ask_books, todo, cur, loaded, cycle, nadds>>

\* the receipt arrives with status 1
CreateMatchConfirmed == CreateMatch(RECEIPT_STATUS_1)

\* the receipt arrives with status 0, the wait times out, or building or
\* sending the transaction raises
CreateMatchFailed == \E event \in FailureEvents : CreateMatch(event)

\* the handler of `except Exception` that leaves the loop instead of sleeping
SleepBreaks ==
    /\ pc \in {"match", "except"}
    /\ pc = "match" => (cur = NoAsset /\ todo = {})
    /\ pc' = IF pc = "except" THEN "exit" ELSE "load"
    /\ todo' = {}
    /\ cur' = NoAsset
    /\ last' = NoTry
    /\ mc' = NoCall
    /\ UNCHANGED <<passes, store, bid_books, ask_books, inflight, matches,
                   loaded, cycle, nadds, ret>>

\* run_matching_loop: await asyncio.sleep(poll_interval), after the for loop
\* or in the handler of an exception; the loop then starts its next pass
Sleep ==
    /\ pc \in {"match", "except"}
    /\ pc = "match" => (cur = NoAsset /\ todo = {})
    /\ pc' = "load"
    /\ todo' = {}
    /\ cur' = NoAsset
    /\ last' = NoTry
    /\ mc' = NoCall
    /\ UNCHANGED <<passes, store, bid_books, ask_books, inflight, matches,
                   loaded, cycle, nadds, ret>>

Next ==
    \/ IndexIntentRegistered
    \/ IndexIntentCancelled
    \/ IndexIntentMatched
    \/ LoadIntents
    \/ AllAssets
    \/ ForAsset
    \/ MatchContinuously
    \/ CreateMatchConfirmed
    \/ CreateMatchFailed
    \/ Sleep

Spec == Init /\ [][Next]_vars

----------------------------------------------------------------------------
(* SpecData: run_matching_loop against a store holding whatever submit_intent *)
(* accepts: api.py stores json.dumps(submission.intent_payload) unexamined    *)

\* "constraints" objects as the submission form (ui/streamlit_app.py) builds
\* them, with the asset to buy or sell in target_asset, and others a client
\* may send: a side that is neither bid nor ask, no side, a price in quotes.
DataConstraints ==
    { [type |-> "bid", price |-> 10100, target_asset |-> "BTC"],
      [type |-> "ask", price |-> 10000, target_asset |-> "ETH"],
      [type |-> "swap", price |-> 10000],
      [price |-> 10100],
      [type |-> "bid", price |-> StrPrice] }

DataPayloads == {NotJson} \cup { [constraints |-> c] : c \in DataConstraints }

\* a new row written by submit_intent (api.py)
IndexDataRegistered ==
    /\ Suspended
    /\ Cardinality(DOMAIN store) < MaxDataIntents
    /\ \E payload \in DataPayloads, asset \in Assets :
          LET id == Cardinality(DOMAIN store) + 1
          IN  store' = Put(store, id,
                           [timestamp |-> id, settlement_asset |-> asset,
                            is_active |-> TRUE, is_matched |-> FALSE,
                            payload |-> payload])
    /\ UNCHANGED <<passes, bid_books, ask_books, pc, todo, cur, inflight, matches, last,
                   loaded, cycle, nadds, mc, ret>>

\* what `loaded` records of a load whose query could not reach the store
Unreachable == [ids |-> {}, inactive |-> {}, unreachable |-> TRUE]

\* run_matching_loop: await self.load_intents_from_indexer() when
\* self.indexer.query_intents raises: nothing is read or added, the
\* exception is caught by the loop
QueryIntentsFails ==
    /\ pc = "load"
    /\ cycle < MaxCycles
    /\ loaded' = Unreachable
    /\ cycle' = cycle + 1
    /\ pc' = "except"
    /\ last' = NoTry
    /\ UNCHANGED <<passes, store, bid_books, ask_books, todo, cur, inflight, matches,
                   nadds, mc, ret>>

NextData ==
    \/ IndexDataRegistered
    \/ QueryIntentsFails
    \/ LoadIntents
    \/ AllAssets
    \/ ForAsset
    \/ MatchContinuously
    \/ CreateMatchConfirmed
    \/ CreateMatchFailed
    \/ Sleep

SpecData == Init /\ [][NextData]_vars

----------------------------------------------------------------------------
(* SpecStop: the loop of SpecData stopped from the keyboard *)

\* KeyboardInterrupt raised in the engine's thread.  It is no Exception:
\* create_match_onchain does not catch it, run_matching_loop breaks on it
\* inside the try block and lets it through in the handler's sleep.  The
\* loop is left wherever it stood, a create_match_onchain call included.
KeyboardInterrupt ==
    /\ pc \in {"load", "assets", "match", "submit", "except"}
    /\ pc' = "exit"
    /\ UNCHANGED <<passes, store, bid_books, ask_books, todo, cur, inflight, matches,
                   last, loaded, cycle, nadds, mc, ret>>

NextStop == NextData \/ KeyboardInterrupt

SpecStop == Init /\ [][NextStop]_vars

----------------------------------------------------------------------------
(* SpecPass: match_continuously run by two coroutines on the book of one *)
(* asset.  A coroutine gives way only where it awaits create_match_onchain. *)

\* add_intent called while the coroutines run or wait
AddIntentPass ==
    /\ pc = "interface"
    /\ nadds < MaxPassAdds
    /\ \E price \in BookPrices, intent_type \in {BID, ASK} :
          LET entry == [intent_id |-> BookIntentId(nadds), price |-> price,
                        quantity |-> 1, intent_type |-> intent_type,
                        timestamp |-> nadds + 1, settlement_asset |-> "USDC"]
          IN  /\ bid_books' = add_intent(bid_books, ask_books, entry).bids
              /\ ask_books' = add_intent(bid_books, ask_books, entry).asks
    /\ nadds' = nadds + 1
    /\ last' = NoTry
    /\ UNCHANGED <<passes, store, pc, todo, cur, inflight, matches, loaded, cycle, mc, ret>>

\* match_continuously from the top of its while loop to the await of
\* create_match_onchain, or to the break
PassTries(w) ==
    LET r == try_match(bid_books, ask_books, "USDC")
    IN  /\ last' = TryRecord(bid_books, ask_books, "USDC")
        /\ bid_books' = r.bids
        /\ ask_books' = r.asks
        /\ passes' = [passes EXCEPT ![w] =
                         IF r.result # None
                         THEN [pc |-> "submit",
                               inflight |-> [bid_intent_id |-> r.result.bid.intent_id,
                                             ask_intent_id |-> r.result.ask.intent_id,
                                             match_price |-> r.result.match_price],
                               returned |-> Append(@.returned, r.result)]
                         ELSE [pc |-> "idle", inflight |-> None, returned |-> @.returned]]

\* a coroutine is started: match_continuously("USDC") runs to its first
\* await or to its break
PassStart(w) ==
    /\ pc = "interface"
    /\ passes[w].pc = "idle"
    /\ PassTries(w)
    /\ UNCHANGED <<store, pc, todo, cur, inflight, matches, loaded, cycle, nadds, mc, ret>>

\* the awaited create_match_onchain returns to the coroutine, which runs to
\* its next await or to its break
PassResume(w) ==
    /\ pc = "interface"
    /\ passes[w].pc = "submit"
    /\ \E event \in FailureEvents \cup {RECEIPT_STATUS_1} :
          LET value == create_match_onchain(event)
          IN  /\ matches' = Append(matches,
                                   [args |-> passes[w].inflight,
                                    status |-> IF value # None THEN CONFIRMED ELSE FAILED,
                                    bid_intent_id |-> passes[w].inflight.bid_intent_id,
                                    ask_intent_id |-> passes[w].inflight.ask_intent_id,
                                    cycle |-> cycle])
              /\ ret' = [event |-> event, value |-> value]
    /\ PassTries(w)
    /\ UNCHANGED <<store, pc, todo, cur, inflight, loaded, cycle, nadds, mc>>

NextPass ==
    \/ AddIntentPass
    \/ \E w \in Workers : PassStart(w)
    \/ \E w \in Workers : PassResume(w)

SpecPass == InitBook /\ [][NextPass]_vars

----------------------------------------------------------------------------
(* Properties of the matching loop *)

HeldEntries ==
    UNION { Entries(bid_books[a]) : a \in DOMAIN bid_books }
    \cup UNION { Entries(ask_books[a]) : a \in DOMAIN ask_books }

\* the places of the containers of one side that hold an entry of intent id
Places(books, id) ==
    UNION { { <<a, i>> : i \in { j \in DOMAIN books[a] : books[a][j].intent_id = id } } :
            a \in DOMAIN books }

\* the number of entries all containers hold of intent id
Occurrences(id) ==
    Cardinality(Places(bid_books, id)) + Cardinality(Places(ask_books, id))

Consumed(m) == {m.bid_intent_id, m.ask_intent_id}

Min(x, y) == IF x <= y THEN x ELSE y

\* C1: no intent_id is a consumed side of two distinct CONFIRMED matches.
C1_NoDoubleMatch ==
    \A j, k \in DOMAIN matches :
        (j # k /\ matches[j].status = CONFIRMED /\ matches[k].status = CONFIRMED)
        => Consumed(matches[j]) \cap Consumed(matches[k]) = {}

\* C6: every match handed to settlement carries a settlement quantity equal
\* to the minimum of the bid's and the ask's quantity.
C6_QuantityHandedOver ==
    \A k \in DOMAIN matches :
        /\ "settlement_quantity" \in DOMAIN matches[k].args
        /\ matches[k].args.settlement_quantity =
              Min(RowQuantity(store[matches[k].bid_intent_id]),
                  RowQuantity(store[matches[k].ask_intent_id]))

\* C7: each intent_id occurs at most once in the union of all bid and ask
\* containers of all assets.
C7_AtMostOnce ==
    \A id \in DOMAIN store : Occurrences(id) <= 1

\* C8: immediately after load_intents_from_indexer the books hold exactly one
\* entry for each positively priced intent the store returned, and no entry
\* for an intent the store did not return.
C8_LoadReplaces ==
    pc = "assets" =>
        \A id \in DOMAIN store :
            /\ (id \in loaded.ids /\ RowPrice(store[id]) > 0 => Occurrences(id) = 1)
            /\ (id \notin loaded.ids => Occurrences(id) = 0)

\* C9: an intent the store reported inactive at a reconciliation is not
\* consumed by a match in that cycle or a later one.
C9_InactiveNeverMatched ==
    LastMatched =>
        /\ last.result.bid.intent_id \notin loaded.inactive
        /\ last.result.ask.intent_id \notin loaded.inactive

\* C10: no container ever holds an entry with price <= 0.
C10_PositivePrices ==
    \A e \in HeldEntries : e.price > 0

\* the prices of a container, highest first
RECURSIVE Descending(_)
Descending(heap) ==
    IF heap = <<>> THEN <<>>
    ELSE LET top == CHOOSE i \in DOMAIN heap :
                        \A j \in DOMAIN heap : heap[i].price >= heap[j].price
         IN  <<heap[top].price>>
             \o Descending([k \in 1..(Len(heap) - 1) |->
                               IF k < top THEN heap[k] ELSE heap[k + 1]])

\* the prices of a container, lowest first
Ascending(heap) ==
    LET d == Descending(heap)
    IN  [k \in 1..Len(d) |-> d[Len(d) + 1 - k]]

\* the number of crossable pairs of a book: the k-th best bid meets the k-th
\* best ask
CrossablePairs(bids, asks) ==
    Cardinality({ k \in 1..Min(Len(bids), Len(asks)) :
                     Descending(bids)[k] >= Ascending(asks)[k] })

\* match_continuously has returned to the for loop
Returned == pc = "match" /\ cur = NoAsset /\ mc.tries > 0

\* C13: match_continuously(asset) terminates.  On a book with N crossable
\* pairs it never makes more than N + 1 try_match calls, and when it returns
\* it has produced exactly N matches with exactly N + 1 calls, the last one
\* returning no match, whatever the outcome of each submission.
C13_Terminates ==
    LET n == CrossablePairs(mc.bids, mc.asks)
    IN  /\ mc.tries <= n + 1
        /\ mc.found <= n
        /\ Returned => /\ mc.found = n
                       /\ mc.tries = n + 1
                       /\ mc.done = n
                       /\ last.result = None

\* C13 witness: a call that met two crossable pairs has returned, one of its
\* submissions confirmed and one failed
C13_Witness ==
    /\ Returned
    /\ CrossablePairs(mc.bids, mc.asks) = 2
    /\ mc.found = 2
    /\ Len(matches) >= 2
    /\ matches[Len(matches)].cycle = cycle
    /\ matches[Len(matches) - 1].cycle = cycle
    /\ matches[Len(matches)].status # matches[Len(matches) - 1].status

\* C15 as stated: no match is submitted to the settlement boundary until
\* match_continuously has finished for every asset observed in either book.
C15_PhasesInOrder ==
    pc = "submit" => (cur = NoAsset /\ todo = {})

\* C15, amended: the load of a cycle comes first, and each match is submitted
\* inside match_continuously as soon as try_match has produced it.  At most
\* one match waits for its outcome, only while create_match_onchain runs;
\* none waits when try_match is called again, when the for loop moves to the
\* next asset, or when the loop sleeps.
C15_SubmittedAsProduced ==
    /\ mc.found - mc.done = (IF pc = "submit" THEN 1 ELSE 0)
    /\ (pc = "submit") = (inflight # None)
    /\ pc = "submit" => cur # NoAsset
    /\ pc \in {"load", "assets"} => mc = NoCall

\* C15 witness: a match is being submitted while an asset of the books is
\* still to be matched in the cycle
C15_Witness ==
    /\ pc = "submit"
    /\ todo # {}
    /\ mc.found = 1
    /\ mc.done = 0

\* what the last create_match_onchain call reported agrees with what it met:
\* a transaction hash, and a CONFIRMED match, only for a receipt with status 1
ReportedAsMet ==
    ret # None =>
        /\ (ret.value # None) = (ret.event = RECEIPT_STATUS_1)
        /\ ret.event \in FailureEvents => ret.value = None
        /\ matches # <<>>
        /\ (matches[Len(matches)].status = CONFIRMED) = (ret.event = RECEIPT_STATUS_1)
        /\ (matches[Len(matches)].status = FAILED) = (ret.event \in FailureEvents)

\* the outcome recorded for a match is never changed afterwards
OutcomeKept ==
    \A k \in DOMAIN matches :
        /\ k \in DOMAIN matches'
        /\ matches'[k].status = matches[k].status

\* C16: a submission is reported as confirmed only when the boundary returned
\* a receipt with success status; a timeout, a receipt with failure status
\* and an error while building or sending yield FAILED with no transaction
\* reference; and no match moves from FAILED to CONFIRMED or back.
C16_ConfirmedOnlyOnAck == []ReportedAsMet /\ [][OutcomeKept]_vars

\* C16 witness: a wait that timed out has just been reported FAILED, after an
\* earlier submission was confirmed
C16_Witness ==
    /\ ret # None
    /\ ret.event = TIMEOUT
    /\ Len(matches) >= 2
    /\ matches[Len(matches)].status = FAILED
    /\ matches[1].status = CONFIRMED

\* C17: submitting the same match twice, the same pair at the same price,
\* creates at most one external commit record: at most one of the
\* submissions is acknowledged.
C17_IdempotentSubmission ==
    \A j, k \in DOMAIN matches :
        (j < k /\ matches[j].args = matches[k].args)
        => ~(matches[j].status = CONFIRMED /\ matches[k].status = CONFIRMED)

\* the intents of a FAILED match are not marked matched by that outcome
StillUnmatched ==
    (ret # None /\ ret.value = None) =>
        \A id \in Consumed(matches[Len(matches)]) : ~store[id].is_matched

\* no intent of a FAILED match is submitted again in the cycle of the failure
NotRetried ==
    \A k \in DOMAIN matches :
        (matches[k].status = FAILED /\ matches[k].cycle = cycle) =>
            /\ \A j \in DOMAIN matches :
                   j > k => Consumed(matches[j]) \cap Consumed(matches[k]) = {}
            /\ inflight # None =>
                   Consumed(inflight) \cap Consumed(matches[k]) = {}

\* the intents of a match that FAILED in the cycle before are in the book
\* again after the load, where the store still returns them
Reoffered ==
    pc = "assets" =>
        \A k \in DOMAIN matches :
            (matches[k].status = FAILED /\ matches[k].cycle = cycle - 1) =>
                \A id \in Consumed(matches[k]) \cap loaded.ids : Occurrences(id) >= 1

\* C18: after a FAILED outcome both consumed intents are still unmatched in
\* the store, are not retried within the same cycle, and are loaded into the
\* book again by the next reconciliation.
C18_ReleasedOnFailure == StillUnmatched /\ NotRetried /\ Reoffered

\* C19: when a reconciliation follows a CONFIRMED submission, both consumed
\* intents are marked matched in the store and the load does not read them.
C19_MarkedByNextLoad ==
    pc = "assets" =>
        \A k \in DOMAIN matches :
            matches[k].status = CONFIRMED =>
                \A id \in Consumed(matches[k]) :
                    /\ store[id].is_matched
                    /\ id \notin loaded.ids

----------------------------------------------------------------------------
(* Properties of load_intents_from_indexer on arbitrary records *)

\* the record names its side: a "type" that is bid or ask, in any case
HasSide(row) ==
    /\ ~json_loads_raises(row.payload)
    /\ "type" \in DOMAIN RowConstraints(row)
    /\ Lower(RowConstraints(row).type) \in {"bid", "ask"}

\* C11: an intent whose side is missing or is neither bid nor ask is in
\* neither the bid nor the ask container.
C11_UnknownSideSkipped ==
    \A id \in DOMAIN store : ~HasSide(store[id]) => Occurrences(id) = 0

\* the record is one the loader can use: parseable, with a side and a
\* numeric price above zero
WellFormed(row) ==
    /\ HasSide(row)
    /\ RowPrice(row) # StrPrice
    /\ RowPrice(row) > 0

\* load_intents_from_indexer has just ended, by returning or by raising
JustLoaded == pc = "assets" \/ (pc = "except" /\ last.asset = NoAsset)

\* C12: when a load ends, every well-formed intent of the set the store
\* returned is in the book, whatever malformed records the set holds and
\* wherever they stand in it.
C12_MalformedNeverAborts ==
    JustLoaded =>
        \A id \in loaded.ids : WellFormed(store[id]) => Occurrences(id) >= 1

\* the asset an intent is to buy or sell, where its record names one
Traded(id) == Get(RowConstraints(store[id]), "target_asset", NoAsset)

\* C14: a bid and an ask are matched with each other only when they are for
\* the same traded asset, whatever settlement currency they share.
C14_SameTradedAsset ==
    \A k \in DOMAIN matches :
        LET b == Traded(matches[k].bid_intent_id)
            a == Traded(matches[k].ask_intent_id)
        IN  (b # NoAsset /\ a # NoAsset) => b = a

\* match_continuously has just raised out of the for loop of run_matching_loop
MatchRaised == pc = "except" /\ last.asset # NoAsset

\* C20: when matching for one asset raises during a cycle, matching has run
\* or still runs in that cycle for every other asset of the books: the error
\* leaves no asset of all_assets unvisited.
C20_OtherAssetsStillMatched ==
    MatchRaised => todo = {}

----------------------------------------------------------------------------
(* Properties of the loop when the store or the operator interferes *)

\* the last reconciliation could not read the store
StoreFailed == loaded = Unreachable

\* a failed read changes nothing the engine holds and ends in the handler
FailedReadLosesNothing ==
    (cycle' = cycle + 1 /\ loaded' = Unreachable) =>
        /\ pc' = "except"
        /\ bid_books' = bid_books
        /\ ask_books' = ask_books
        /\ matches' = matches

\* the handler's only way on is the sleep that precedes the next load
HandlerSleeps == pc = "except" => pc' = "load"

\* C21: when the store cannot be read during reconciliation only that cycle
\* is lost: the loop does not exit, it sleeps and is then at the load of the
\* next interval.
C21_StoreFailureLosesOneCycle ==
    /\ [](StoreFailed => (pc \in {"except", "load"} /\ (pc = "except" => ENABLED Sleep)))
    /\ [][FailedReadLosesNothing /\ HandlerSleeps]_vars

\* C21 witness: after a read that failed with intents in the store, the loop
\* is back at the load of the next interval
C21_Witness ==
    /\ StoreFailed
    /\ pc = "load"
    /\ cycle = 1
    /\ store # <<>>

\* C22: when the loop exits on a shutdown request it has finished the cycle
\* in flight, and no pair popped from the book is left without its
\* submission made and its outcome returned.
C22_ExitsAfterCycle ==
    pc = "exit" =>
        /\ inflight = None
        /\ mc.found = mc.done
        /\ cur = NoAsset
        /\ todo = {}

\* C22, the case of a submission in progress: the loop has exited with a
\* popped pair whose outcome nobody waits for
C22_ExitedMidSubmission ==
    /\ pc = "exit"
    /\ inflight # None
    /\ Occurrences(inflight.bid_intent_id) = 0
    /\ Occurrences(inflight.ask_intent_id) = 0

----------------------------------------------------------------------------
(* Progress of a cycle *)

\* the row states the side in its constraints, with a price above zero
Reports(row, side) ==
    /\ ~json_loads_raises(row.payload)
    /\ "type" \in DOMAIN RowConstraints(row)
    /\ Lower(RowConstraints(row).type) = side
    /\ RowPrice(row) > 0

\* the last load read a bid and an ask under the book key `asset' whose
\* prices cross
ReportedCrossing(asset) ==
    \E b, a \in loaded.ids :
        /\ store[b].settlement_asset = asset
        /\ store[a].settlement_asset = asset
        /\ Reports(store[b], "bid")
        /\ Reports(store[a], "ask")
        /\ RowPrice(store[b]) >= RowPrice(store[a])

\* a match under the book key `asset' was submitted in the current cycle
SubmittedInCycle(asset) ==
    \E k \in DOMAIN matches :
        /\ matches[k].cycle = cycle
        /\ store[matches[k].bid_intent_id].settlement_asset = asset

\* the cycle is over: the loop is about to sleep
CycleOver == pc = "except" \/ (pc = "match" /\ cur = NoAsset /\ todo = {})

\* C30: when the store read of a cycle succeeded and returned an active,
\* unmatched bid and ask with positive prices under one book key and the bid
\* price at least the ask price, a match for that key has been submitted to
\* the settlement boundary by the time the cycle is over.
C30_CrossingPairSubmitted ==
    (CycleOver /\ cycle > 0 /\ ~StoreFailed) =>
        \A asset \in Assets : ReportedCrossing(asset) => SubmittedInCycle(asset)

\* a cycle that ended after submitting a match for a crossing pair it read
C30_SubmittedReached ==
    /\ CycleOver /\ cycle > 0 /\ ~StoreFailed
    /\ \E asset \in Assets : ReportedCrossing(asset) /\ SubmittedInCycle(asset)

----------------------------------------------------------------------------
(* Properties of the book that match_continuously leaves *)

\* match_continuously has just returned for the asset last.asset
ReturnedFor == Returned /\ LastTried

\* C28: when match_continuously(asset) returns, the asset's bid container
\* is empty, or its ask container is empty, or its highest bid price is
\* strictly below its lowest ask price.
C28_UncrossedOnReturn ==
    ReturnedFor =>
        LET bids == Get(bid_books, last.asset, <<>>)
            asks == Get(ask_books, last.asset, <<>>)
        IN  \/ bids = <<>>
            \/ asks = <<>>
            \/ Descending(bids)[1] < Ascending(asks)[1]

\* match_continuously returns after it matched a pair, leaving entries on
\* both sides of the asset's book
C28_Witness ==
    /\ ReturnedFor
    /\ mc.found > 0
    /\ Get(bid_books, last.asset, <<>>) # <<>>
    /\ Get(ask_books, last.asset, <<>>) # <<>>

----------------------------------------------------------------------------
(* The engine and the store *)

\* everything a step of the engine changes
EngineState == <<bid_books, ask_books, pc, todo, cur, inflight, matches, mc, cycle>>

\* the intents of the matches whose commit succeeded
CommittedIds ==
    UNION { Consumed(matches[k]) : k \in { n \in DOMAIN matches : matches[n].status = CONFIRMED } }

\* a step of the engine (a load, a try_match, a pass of match_continuously,
\* a submission whatever its outcome, a sleep) leaves the store as it was
EngineOnlyReads == EngineState' # EngineState => store' = store

\* a row that becomes matched belongs to a match whose commit succeeded,
\* and a new row is not matched
MatchedOnlyByCommit ==
    \A id \in DOMAIN store' :
        IF id \in DOMAIN store
        THEN (~store[id].is_matched /\ store'[id].is_matched) => id \in CommittedIds
        ELSE ~store'[id].is_matched

----------------------------------------------------------------------------
(* Frame properties of try_match *)

\* `after' is `before' without the entry e, and e was in `before'
Without(after, before, e) ==
    /\ e \in Entries(before)
    /\ Entries(after) = Entries(before) \ {e}
    /\ Len(after) = Len(before) - 1

\* the containers of every asset but the tried one are as they were
OtherAssetsUntouched ==
    /\ DOMAIN bid_books = DOMAIN last.bids
    /\ DOMAIN ask_books = DOMAIN last.asks
    /\ \A a \in DOMAIN bid_books : a # last.asset => bid_books[a] = last.bids[a]
    /\ \A a \in DOMAIN ask_books : a # last.asset => ask_books[a] = last.asks[a]

\* C24: after try_match returned a match, the book is the book before the
\* call minus exactly the returned bid and the returned ask, whatever their
\* quantities, and no container of another asset has changed.
C24_ExactlyThePairRemoved ==
    LastMatched =>
        /\ Without(bid_books[last.asset], LastBids, last.result.bid)
        /\ Without(ask_books[last.asset], LastAsks, last.result.ask)
        /\ OtherAssetsUntouched

\* a match of a bid and an ask of different quantities, made while another
\* asset has an entry in the book
C24_Witness ==
    /\ LastMatched
    /\ last.result.bid.quantity # last.result.ask.quantity
    /\ \E a \in DOMAIN last.bids \cup DOMAIN last.asks : a # last.asset

\* the book the last try_match call found cannot match: a side is missing
\* or empty, or the highest bid is below the lowest ask
LastUncrossed ==
    /\ LastTried
    /\ \/ LastBids = <<>>
       \/ LastAsks = <<>>
       \/ Descending(LastBids)[1] < Ascending(LastAsks)[1]

\* C26: try_match on an unknown asset, on an asset with entries on one side
\* only, or on an asset whose best bid is below its best ask returns None,
\* raises nothing and leaves every container as it was, none created.
C26_NoMatchNoChange ==
    LastUncrossed =>
        /\ last.result = None
        /\ ~try_match(last.bids, last.asks, last.asset).raised
        /\ bid_books = last.bids
        /\ ask_books = last.asks

\* try_match called on a book with both sides whose best bid is below its
\* best ask
C26_Witness ==
    /\ LastUncrossed
    /\ LastBids # <<>> /\ LastAsks # <<>>
    /\ last.result = None

\* try_match called on an asset the book has never seen
C26_UnknownAssetReached ==
    /\ LastUncrossed
    /\ last.asset \notin DOMAIN last.bids \cup DOMAIN last.asks
    /\ DOMAIN last.bids # {}

\* try_match called on an asset with bids only
C26_OneSideReached ==
    /\ LastUncrossed
    /\ LastBids # <<>>
    /\ last.asset \notin DOMAIN last.asks

\* C29: the settlement price of every match try_match produces lies between
\* the ask's price and the bid's price, both included, also when the sum of
\* the two prices is odd and the midpoint is rounded down.
C29_PriceWithinLimits ==
    LastMatched =>
        /\ last.result.ask.price <= last.result.match_price
        /\ last.result.match_price <= last.result.bid.price

\* a bid at 10001 matched with an ask at 10000: the midpoint 10000.5 is
\* rounded down to the ask's own limit
C29_Witness ==
    /\ LastMatched
    /\ last.result.bid.price = 10001
    /\ last.result.ask.price = 10000
    /\ last.result.match_price = 10000

----------------------------------------------------------------------------
(* Properties of matching passes run side by side *)

\* the try_match calls that returned a match: coroutine and call number
ReturnedCalls ==
    UNION { { <<w, i>> : i \in DOMAIN passes[w].returned } : w \in Workers }

\* the two entries a returned match took
Taken(c) ==
    {passes[c[1]].returned[c[2]].bid.intent_id, passes[c[1]].returned[c[2]].ask.intent_id}

\* C25: the two entries of a match are out of the book when the match is
\* handed to submission, and no entry is returned by two different try_match
\* calls of passes that interleave at the submission.
C25_NoEntryReturnedTwice ==
    /\ \A w \in Workers :
           passes[w].pc = "submit" =>
               /\ Occurrences(passes[w].inflight.bid_intent_id) = 0
               /\ Occurrences(passes[w].inflight.ask_intent_id) = 0
    /\ \A c, d \in ReturnedCalls : c # d => Taken(c) \cap Taken(d) = {}

\* both coroutines wait for their submission at once, each with a pair
C25_Witness ==
    /\ \A w \in Workers : passes[w].pc = "submit" /\ Len(passes[w].returned) = 1
    /\ Len(bid_books["USDC"]) + Len(ask_books["USDC"]) = 0

----------------------------------------------------------------------------
(* Properties of the order book snapshot *)

\* a snapshot has been returned
Snapshot == pc = "interface" /\ ret # None

\* what a snapshot must list for an entry
ListedFor(e) == [intent_id |-> e.intent_id, price |-> e.price, quantity |-> e.quantity]

\* `listed' is the best (at most ten) entries of `book', best first, where
\* Better(p, q) says that price p is at least as good as price q
TopTen(listed, book, Better(_, _)) ==
    /\ Len(listed) = Min(10, Len(book))
    /\ \A i, j \in DOMAIN listed : i < j => Better(listed[i].price, listed[j].price)
    /\ \A i, j \in DOMAIN listed : i # j => listed[i].intent_id # listed[j].intent_id
    /\ \A i \in DOMAIN listed : \E e \in Entries(book) : listed[i] = ListedFor(e)
    /\ \A e \in Entries(book) :
           (\A i \in DOMAIN listed : listed[i].intent_id # e.intent_id)
           => \A i \in DOMAIN listed : Better(listed[i].price, e.price)

HigherFirst(p, q) == p >= q
LowerFirst(p, q) == p <= q

\* C23: a snapshot lists at most the ten highest bids, highest price first,
\* and at most the ten lowest asks, lowest price first; its spread is the best
\* ask price minus the best bid price, and None when a side is empty or the
\* asset is unknown.
C23_SnapshotTopTen ==
    Snapshot =>
        LET bids == Get(bid_books, ret.asset, <<>>)
            asks == Get(ask_books, ret.asset, <<>>)
        IN  /\ TopTen(ret.bids, bids, HigherFirst)
            /\ TopTen(ret.asks, asks, LowerFirst)
            /\ ret.spread = IF bids # <<>> /\ asks # <<>>
                            THEN [int |-> Ascending(asks)[1] - Descending(bids)[1]]
                            ELSE None

\* a snapshot of a book that holds more than ten entries on each side
C23_Witness ==
    /\ Snapshot
    /\ Len(Get(bid_books, ret.asset, <<>>)) > 10
    /\ Len(Get(ask_books, ret.asset, <<>>)) > 10
    /\ Len(ret.bids) = 10 /\ Len(ret.asks) = 10
    /\ ret.spread # None

\* snapshots with no spread: an unknown asset, and a book with one side only
C23_NoSpreadReached ==
    /\ Snapshot /\ ret.spread = None
    /\ \/ ret.asset \notin DOMAIN bid_books \cup DOMAIN ask_books
       \/ ret.bids # <<>>

==========================================================================
